---- MODULE Spec2Model ----
(***************************************************************************)
(* Model of scripts/link-checker.py: the LinkChecker crawl engine.         *)
(*                                                                         *)
(* Text.  A Python str is modelled as a sequence of tokens; concatenating  *)
(* strings is concatenating sequences, '' is <<>>.  The tokens are chosen  *)
(* prefix-free (no token is a character prefix of another one), so that    *)
(* str.startswith is the prefix relation on token sequences, and every     *)
(* file extension is a token of its own, so that str.endswith(ext) is a    *)
(* test of the last token.  An Optional value is None == <<>> or <<v>>.    *)
(*                                                                         *)
(* The fields response_time and final_url of a check_url result are never  *)
(* read by the crawl and are left out of the records.                      *)
(***************************************************************************)
EXTENDS Integers, Sequences, FiniteSets, TLC

VARIABLES
    base_url,       \* self.base_url
    max_pages,      \* self.max_pages
    delay,          \* self.delay
    visited,        \* self.visited
    to_visit,       \* self.to_visit (deque, left end first)
    broken_links,   \* self.broken_links
    valid_links,    \* self.valid_links
    pages_checked,  \* local pages_checked of crawl
    current_url,    \* local current_url of crawl
    pc,             \* position of crawl: loop, check, refetch, sleep, done, raised, interrupted
    fetches,        \* number of calls of check_url so far
    gets,           \* number of session.get calls so far (check_url and re-fetch)
    in_flight,      \* number of session.get calls that have not returned
    slept,          \* a time.sleep(delay) has completed since the last session.get was issued
    paced,          \* every session.get but the first was issued after such a sleep
    fetch_log,      \* the results check_url has returned, in order
    get_log,        \* the session.get calls issued, in order: [url, kind]
    enq_log,        \* the URLs appended to to_visit, in order of their first append: [url, depth]
    sleeps,         \* number of time.sleep(delay) calls that have returned
    last,           \* the step crawl took last
    fin,            \* input of the URL filter harness: a URL string
    fin2,           \* second input of the harness: a URL string
    fout            \* output of the harness

vars == <<base_url, max_pages, delay, visited, to_visit, broken_links,
          valid_links, pages_checked, current_url, pc, fetches, gets,
          in_flight, slept, paced, fetch_log, get_log, enq_log, sleeps,
          last, fin, fin2, fout>>

crawlVars == <<base_url, max_pages, delay, visited, to_visit, broken_links,
               valid_links, pages_checked, current_url, pc, fetches, gets,
               in_flight, slept, paced, fetch_log, get_log, enq_log,
               sleeps, last>>

harnessVars == <<fin, fin2, fout>>

----------------------------------------------------------------------------
(* Bounds *)

MaxPages == 4       \* largest max_pages tried
MaxLinks == 2       \* most href/src matches in one page body

----------------------------------------------------------------------------
(* Strings and optionals *)

None == <<>>
Some(v) == <<v>>

\* Python truthiness of an Optional[str]: None and '' are falsy
Truthy(opt) == opt # None /\ opt[1] # <<>>

\* str.lower(), token by token
Lower(tok) ==
    CASE tok = ".PNG" -> ".png"
      [] tok = "IMG"  -> "img"
      [] OTHER        -> tok

LowerStr(s) == [i \in DOMAIN s |-> Lower(s[i])]

EndsWith(s, suffix) == Len(s) > 0 /\ s[Len(s)] = suffix

StartsWith(s, prefix) ==
    Len(prefix) <= Len(s) /\ SubSeq(s, 1, Len(prefix)) = prefix

Contains(s, tok) == \E i \in DOMAIN s : s[i] = tok

RECURSIVE RStripSlash(_)
RStripSlash(s) ==
    IF Len(s) > 0 /\ s[Len(s)] = "/" THEN RStripSlash(SubSeq(s, 1, Len(s) - 1))
    ELSE s

\* least index i >= from with s[i] \in toks, Len(s)+1 when there is none
FirstIn(s, from, toks) ==
    IF \E i \in from..Len(s) : s[i] \in toks
    THEN CHOOSE i \in from..Len(s) :
            s[i] \in toks /\ \A j \in from..(i - 1) : s[j] \notin toks
    ELSE Len(s) + 1

----------------------------------------------------------------------------
(* urllib.parse, for URLs of the forms scheme://netloc/path?query#fragment *)
(* and /path?query#fragment                                                *)

urlparse(url) ==
    LET hasScheme == Len(url) >= 2 /\ url[2] = "://"
        n0 == IF hasScheme THEN 3 ELSE 1
        n1 == IF hasScheme THEN FirstIn(url, n0, {"/", "?", "#"}) ELSE n0
        fr == FirstIn(url, n1, {"#"})
        q  == FirstIn(SubSeq(url, 1, fr - 1), n1, {"?"})
    IN  [scheme   |-> IF hasScheme THEN SubSeq(url, 1, 1) ELSE <<>>,
         netloc   |-> SubSeq(url, n0, n1 - 1),
         path     |-> SubSeq(url, n1, q - 1),
         query    |-> SubSeq(url, q + 1, fr - 1),
         fragment |-> SubSeq(url, fr + 1, Len(url))]

\* urljoin(base, link) for an absolute link and for a link that starts with /
urljoin(base, link) ==
    IF Len(link) >= 2 /\ link[2] = "://" THEN link
    ELSE LET b == urlparse(base)
         IN  b.scheme \o <<"://">> \o b.netloc \o link

----------------------------------------------------------------------------
(* LinkChecker.is_valid_url and extract_links *)

skip_extensions == {".png", ".jpg", ".jpeg", ".gif", ".svg", ".ico",
                    ".css", ".js", ".pdf", ".zip", ".exe", ".dmg"}

clean_url_keeps_query(parsed) ==
    parsed.scheme \o <<"://">> \o parsed.netloc \o parsed.path
        \o (IF parsed.query # <<>> THEN <<"?">> \o parsed.query ELSE <<>>)

\* f"{parsed.scheme}://{parsed.netloc}{parsed.path}"
clean_url(parsed) == parsed.scheme \o <<"://">> \o parsed.netloc \o parsed.path

is_valid_url(url, base, vis) ==
    LET parsed == urlparse(url)
        base_parsed == urlparse(base)
    IN  IF parsed.netloc # <<>> /\ parsed.netloc # base_parsed.netloc THEN FALSE
        ELSE IF parsed.scheme # <<>> /\ parsed.scheme \notin {<<"http">>, <<"https">>}
             THEN FALSE
        ELSE IF \E ext \in skip_extensions : EndsWith(LowerStr(url), ext) THEN FALSE
        ELSE clean_url(parsed) \notin vis

\* html_content is the set of attribute matches [attr, link] the two
\* regular expressions find in the page
extract_links(html_content, cur, base, vis) ==
    LET hrefs == {m \in html_content : m.attr = "href"}
        srcs  == {m \in html_content : m.attr = "src"}
    IN  {clean_url(urlparse(urljoin(cur, m.link))) :
            m \in {h \in hrefs : is_valid_url(urljoin(cur, h.link), base, vis)}}
        \cup
        {urljoin(cur, m.link) :
            m \in {s \in srcs : StartsWith(urljoin(cur, s.link), base)}}

----------------------------------------------------------------------------
(* Inputs: the seed, what the network answers, what a page contains *)

Seeds == {<<"https", "://", "example.test", "/">>}

Html == <<"text/html", "; charset=utf-8">>

\* values of the content-type header; '' when the header is missing
ContentTypes == {<<>>, Html, <<"application/json">>}

Response(code, ctype) ==
    [status_code |-> Some(code), content_type |-> Some(ctype), error |-> None]

Failure(message) ==
    [status_code |-> None, content_type |-> None, error |-> Some(message)]

\* str(e) of the RequestException
ErrorMessages == {<<>>, <<"Connection refused">>}

\* values of href= and src= attributes
LinkRefs == {<<"/", "a">>,
             <<"/", "?", "v=1">>,
             <<"https", "://", "other.test", "/", "x">>,
             <<"https", "://", "example.test", ".evil.com", "/", "x">>}

Matches == [attr : {"href", "src"}, link : LinkRefs]

Bodies == {b \in SUBSET Matches : Cardinality(b) <= MaxLinks}

\* what session.get can end in inside check_url: a response or a RequestException
Outcomes ==
    {Response(200, t) : t \in ContentTypes}
    \cup {Response(301, Html), Response(400, Html)}
    \cup {Failure(m) : m \in ErrorMessages}

\* the orders in which a for loop can iterate over a Python set
Orders(S) == {f \in [1..Cardinality(S) -> S] :
                \A i, j \in 1..Cardinality(S) : f[i] = f[j] => i = j}

----------------------------------------------------------------------------
(* LinkChecker.__init__ *)

InitChecker(url, maxp, d) ==
    /\ base_url = RStripSlash(url)
    /\ max_pages = maxp
    /\ delay = d
    /\ visited = {}
    /\ to_visit = <<url>>
    /\ broken_links = <<>>
    /\ valid_links = <<>>
    /\ pages_checked = 0
    /\ current_url = <<>>
    /\ pc = "loop"
    /\ fetches = 0
    /\ gets = 0
    /\ in_flight = 0
    /\ slept = TRUE
    /\ paced = TRUE
    /\ fetch_log = <<>>
    /\ get_log = <<>>
    /\ enq_log = <<[url |-> url, depth |-> 0]>>
    /\ sleeps = 0
    /\ last = "init"

HarnessIdle ==
    /\ fin = <<>>
    /\ fin2 = <<>>
    /\ fout = [done |-> FALSE]

Init ==
    /\ \E url \in Seeds, maxp \in 0..MaxPages : InitChecker(url, maxp, 1)
    /\ HarnessIdle

----------------------------------------------------------------------------
(* LinkChecker.check_url: the dict it returns for an outcome of session.get *)

check_url(url, o) ==
    [url |-> url, status_code |-> o.status_code,
     content_type |-> o.content_type, error |-> o.error]

WithIssue(result, issue) ==
    [url |-> result.url, status_code |-> result.status_code,
     content_type |-> result.content_type, error |-> result.error,
     issue |-> issue]

ConnectionIssue(result) == <<"Connection error: ">> \o result.error[1]

HttpIssue(result) == <<"HTTP ", ToString(result.status_code[1]), " error">>

IsBrokenServerOnly(code) == code >= 500

IsBroken(code) == code >= 400

WantsExtractionAnyStatus(result) ==
    /\ Truthy(result.content_type)
    /\ Contains(result.content_type[1], "text/html")

WantsExtractionAnyType(result) == result.status_code[1] = 200

WantsExtraction(result) ==
    /\ Truthy(result.content_type)
    /\ Contains(result.content_type[1], "text/html")
    /\ result.status_code[1] = 200

----------------------------------------------------------------------------
(* LinkChecker.crawl, cut at its blocking calls *)

LoopConditionEarly == to_visit # <<>> /\ pages_checked < max_pages - 1

LoopConditionOffByOne == to_visit # <<>> /\ pages_checked <= max_pages

LoopCondition == to_visit # <<>> /\ pages_checked < max_pages

SkipCounting ==
    /\ pc = "loop"
    /\ LoopCondition
    /\ Head(to_visit) \in visited
    /\ to_visit' = Tail(to_visit)
    /\ pages_checked' = pages_checked + 1
    /\ UNCHANGED <<base_url, max_pages, delay, visited, broken_links,
                   valid_links, current_url, pc, fetches,
                   gets, in_flight, slept, paced, fetch_log, get_log,
                   enq_log, sleeps>>
    /\ last' = "skip"
    /\ UNCHANGED harnessVars

\* popleft of a URL that is already in visited: continue
Skip ==
    /\ pc = "loop"
    /\ LoopCondition
    /\ Head(to_visit) \in visited
    /\ to_visit' = Tail(to_visit)
    /\ UNCHANGED <<base_url, max_pages, delay, visited, broken_links,
                   valid_links, pages_checked, current_url, pc, fetches,
                   gets, in_flight, slept, paced, fetch_log, get_log,
                   enq_log, sleeps>>
    /\ last' = "skip"
    /\ UNCHANGED harnessVars

DequeueUnmarked ==
    /\ pc = "loop"
    /\ LoopCondition
    /\ Head(to_visit) \notin visited
    /\ current_url' = Head(to_visit)
    /\ to_visit' = Tail(to_visit)
    /\ pages_checked' = pages_checked + 1
    /\ fetches' = fetches + 1
    /\ gets' = gets + 1
    /\ in_flight' = in_flight + 1
    /\ slept' = FALSE
    /\ paced' = (paced /\ (gets = 0 \/ slept))
    /\ pc' = "check"
    /\ get_log' = Append(get_log, [url |-> Head(to_visit), kind |-> "check"])
    /\ last' = "dequeue"
    /\ UNCHANGED <<visited, base_url, max_pages, delay, broken_links, valid_links,
                   fetch_log, enq_log, sleeps>>
    /\ UNCHANGED harnessVars

\* popleft of a new URL, up to the session.get of check_url being issued
Dequeue ==
    /\ pc = "loop"
    /\ LoopCondition
    /\ Head(to_visit) \notin visited
    /\ current_url' = Head(to_visit)
    /\ to_visit' = Tail(to_visit)
    /\ visited' = visited \cup {Head(to_visit)}
    /\ pages_checked' = pages_checked + 1
    /\ fetches' = fetches + 1
    /\ gets' = gets + 1
    /\ in_flight' = in_flight + 1
    /\ slept' = FALSE
    /\ paced' = (paced /\ (gets = 0 \/ slept))
    /\ pc' = "check"
    /\ get_log' = Append(get_log, [url |-> Head(to_visit), kind |-> "check"])
    /\ last' = "dequeue"
    /\ UNCHANGED <<base_url, max_pages, delay, broken_links, valid_links,
                   fetch_log, enq_log, sleeps>>
    /\ UNCHANGED harnessVars

\* check_url returns; the result is classified; for a 200 HTML page the
\* second session.get is issued
Classify(result, flying) ==
    /\ IF Truthy(result.error)
       THEN /\ broken_links' = Append(broken_links,
                                      WithIssue(result, ConnectionIssue(result)))
            /\ pc' = "sleep"
            /\ in_flight' = flying
            /\ UNCHANGED <<valid_links, gets, slept, paced, get_log>>
       ELSE IF result.status_code = None
       THEN \* None >= 400 raises TypeError, which crawl does not catch
            /\ pc' = "raised"
            /\ in_flight' = flying
            /\ UNCHANGED <<broken_links, valid_links, gets, slept, paced, get_log>>
       ELSE IF IsBroken(result.status_code[1])
       THEN /\ broken_links' = Append(broken_links,
                                      WithIssue(result, HttpIssue(result)))
            /\ pc' = "sleep"
            /\ in_flight' = flying
            /\ UNCHANGED <<valid_links, gets, slept, paced, get_log>>
       ELSE /\ valid_links' = Append(valid_links, result)
            /\ UNCHANGED broken_links
            /\ IF WantsExtraction(result)
               THEN /\ pc' = "refetch"
                    /\ gets' = gets + 1
                    /\ in_flight' = flying + 1
                    /\ slept' = FALSE
                    /\ paced' = (paced /\ slept)
                    /\ get_log' = Append(get_log, [url |-> result.url,
                                                   kind |-> "body"])
               ELSE /\ pc' = "sleep"
                    /\ in_flight' = flying
                    /\ UNCHANGED <<gets, slept, paced, get_log>>

CheckReturnOf(outcomes) ==
    /\ pc = "check"
    /\ \E o \in outcomes :
          LET result == check_url(current_url, o)
          IN  /\ fetch_log' = Append(fetch_log, result)
              /\ Classify(result, in_flight - 1)
    /\ last' = "classified"
    /\ UNCHANGED <<base_url, max_pages, delay, visited, to_visit,
                   pages_checked, current_url, fetches, enq_log, sleeps>>
    /\ UNCHANGED harnessVars

CheckReturn == CheckReturnOf(Outcomes)

RECURSIVE EnqueueFront(_, _, _)
EnqueueFront(queue, order, vis) ==
    IF order = <<>> THEN queue
    ELSE EnqueueFront(IF Head(order) \notin vis THEN <<Head(order)>> \o queue
                      ELSE queue,
                      Tail(order), vis)

RECURSIVE EnqueueAll(_, _, _)
EnqueueAll(queue, order, vis) ==
    IF order = <<>> THEN queue
    ELSE EnqueueAll(Append(queue, Head(order)), Tail(order), vis)

\* the for loop over links: append each link that is not in visited
RECURSIVE Enqueue(_, _, _)
Enqueue(queue, order, vis) ==
    IF order = <<>> THEN queue
    ELSE Enqueue(IF Head(order) \notin vis THEN Append(queue, Head(order))
                 ELSE queue,
                 Tail(order), vis)

\* the URLs of order that the for loop appends for the first time, with
\* their link distance from the seed
RECURSIVE Discover(_, _, _, _)
Discover(log, order, vis, d) ==
    IF order = <<>> THEN log
    ELSE Discover(IF /\ Head(order) \notin vis
                     /\ \A i \in DOMAIN log : log[i].url # Head(order)
                  THEN Append(log, [url |-> Head(order), depth |-> d])
                  ELSE log,
                  Tail(order), vis, d)

DepthOf(url) ==
    LET i == CHOOSE j \in DOMAIN enq_log : enq_log[j].url = url
    IN  enq_log[i].depth

\* the second session.get returns a page; its links are extracted and enqueued
RefetchReturnOf(bodies) ==
    /\ pc = "refetch"
    /\ \E html_content \in bodies :
          LET links == extract_links(html_content, current_url, base_url, visited)
          IN  \E order \in Orders(links) :
                 /\ to_visit' = Enqueue(to_visit, order, visited)
                 /\ enq_log' = Discover(enq_log, order, visited,
                                        DepthOf(current_url) + 1)
    /\ in_flight' = in_flight - 1
    /\ pc' = "sleep"
    /\ last' = "extracted"
    /\ UNCHANGED <<base_url, max_pages, delay, visited, broken_links,
                   valid_links, pages_checked, current_url, fetches, gets,
                   slept, paced, fetch_log, get_log, sleeps>>
    /\ UNCHANGED harnessVars

RefetchReturn == RefetchReturnOf(Bodies)

RefetchFailReclassify ==
    /\ pc = "refetch"
    /\ in_flight' = in_flight - 1
    /\ pc' = "sleep"
    /\ last' = "extract_failed"
    /\ valid_links' = SubSeq(valid_links, 1, Len(valid_links) - 1)
    /\ broken_links' = Append(broken_links, valid_links[Len(valid_links)])
    /\ UNCHANGED <<base_url, max_pages, delay, visited, to_visit,
                   pages_checked, current_url,
                   fetches, gets, slept, paced, fetch_log, get_log, enq_log,
                   sleeps>>
    /\ UNCHANGED harnessVars

\* the second session.get or extract_links raises; except Exception swallows it
RefetchFail ==
    /\ pc = "refetch"
    /\ in_flight' = in_flight - 1
    /\ pc' = "sleep"
    /\ last' = "extract_failed"
    /\ UNCHANGED <<base_url, max_pages, delay, visited, to_visit,
                   broken_links, valid_links, pages_checked, current_url,
                   fetches, gets, slept, paced, fetch_log, get_log, enq_log,
                   sleeps>>
    /\ UNCHANGED harnessVars

\* time.sleep(self.delay) returns
Sleep ==
    /\ pc = "sleep"
    /\ slept' = TRUE
    /\ pc' = "loop"
    /\ sleeps' = sleeps + 1
    /\ last' = "sleep"
    /\ UNCHANGED <<base_url, max_pages, delay, visited, to_visit,
                   broken_links, valid_links, pages_checked, current_url,
                   fetches, gets, in_flight, paced, fetch_log, get_log,
                   enq_log>>
    /\ UNCHANGED harnessVars

\* the while condition is false: crawl returns
Finish ==
    /\ pc = "loop"
    /\ ~LoopCondition
    /\ pc' = "done"
    /\ last' = "finish"
    /\ UNCHANGED <<base_url, max_pages, delay, visited, to_visit,
                   broken_links, valid_links, pages_checked, current_url,
                   fetches, gets, in_flight, slept, paced, fetch_log, get_log,
                   enq_log, sleeps>>
    /\ UNCHANGED harnessVars

Next ==
    \/ Skip
    \/ Dequeue
    \/ CheckReturn
    \/ RefetchReturn
    \/ RefetchFail
    \/ Sleep
    \/ Finish

Spec == Init /\ [][Next]_vars

TypeOK ==
    /\ pc \in {"loop", "check", "refetch", "sleep", "done", "raised",
              "interrupted"}
    /\ pages_checked \in 0..max_pages
    /\ in_flight \in 0..1

----------------------------------------------------------------------------
(* main: KeyboardInterrupt stops crawl while it blocks in session.get or   *)
(* time.sleep; neither except clause of crawl and check_url catches it;    *)
(* main then calls print_summary                                           *)

Interrupt ==
    /\ pc \in {"check", "refetch", "sleep"}
    /\ pc' = "interrupted"
    /\ in_flight' = 0
    /\ last' = "interrupt"
    /\ UNCHANGED <<base_url, max_pages, delay, visited, to_visit,
                   broken_links, valid_links, pages_checked, current_url,
                   fetches, gets, slept, paced, fetch_log, get_log, enq_log,
                   sleeps>>
    /\ UNCHANGED harnessVars

NextInterrupt ==
    \/ Next
    \/ Interrupt

SpecInterrupt == Init /\ [][NextInterrupt]_vars

\* print_summary: "Total pages checked" and "Total links found"
total_pages_checked == Cardinality(visited)

total_links == Len(valid_links) + Len(broken_links)

\* crawl when every session.get and every time.sleep returns
SpecFair == Init /\ [][Next]_vars /\ WF_vars(Next)

----------------------------------------------------------------------------
(* generate_report: success_rate, kept as the fraction num/den *)

success_rate ==
    LET total == Len(valid_links) + Len(broken_links)
    IN  IF total > 0 THEN [num |-> Len(valid_links) * 100, den |-> total]
        ELSE [num |-> 0, den |-> 1]

----------------------------------------------------------------------------
(* The example.test scenario: the seed is an HTML page with links to /a,   *)
(* /b and /missing; /a and /b answer 200, /missing answers 404             *)

ScnSeed    == <<"https", "://", "example.test", "/">>
ScnA       == <<"https", "://", "example.test", "/", "a">>
ScnB       == <<"https", "://", "example.test", "/", "b">>
ScnMissing == <<"https", "://", "example.test", "/", "missing">>

ScnOutcomes(url) ==
    IF url = ScnSeed THEN {Response(200, Html)}
    ELSE IF url = ScnMissing THEN {Response(404, t) : t \in ContentTypes}
    ELSE {Response(200, t) : t \in ContentTypes}

Href(link) == [attr |-> "href", link |-> link]

\* /a and /b link to nothing new
ScnBodies(url) ==
    IF url = ScnSeed
    THEN {{Href(<<"/", "a">>), Href(<<"/", "b">>), Href(<<"/", "missing">>)}}
    ELSE SUBSET {Href(<<"/">>), Href(<<"/", "a", "#", "top">>),
                 Href(<<"/", "missing", "?", "v=1">>)}

InitScenario ==
    /\ InitChecker(ScnSeed, 10, 0)      \* maxPages=10, delay=0
    /\ HarnessIdle

ScnCheckReturn == CheckReturnOf(ScnOutcomes(current_url))

ScnRefetchReturn == RefetchReturnOf(ScnBodies(current_url))

NextScenario ==
    \/ Skip
    \/ Dequeue
    \/ ScnCheckReturn
    \/ ScnRefetchReturn
    \/ Sleep
    \/ Finish

SpecScenario == InitScenario /\ [][NextScenario]_vars

----------------------------------------------------------------------------
(* The URL filter on its own: is_valid_url, the canonical form and the     *)
(* href branch of extract_links applied to URL strings                     *)

UrlSchemes == {<<"https">>, <<"ftp">>}
UrlNetlocs == {<<"example.test">>, <<"other.test">>}
UrlPaths   == {<<>>, <<"/">>, <<"/", "a">>, <<"/", "img", ".png">>,
               <<"/", "IMG", ".PNG">>}
UrlQueries == {<<>>, <<"?", "v=1">>, <<"?", "w=2">>}
UrlFragments == {<<>>, <<"#", "top">>}

UrlStrings ==
    {sch \o <<"://">> \o nl \o p \o q \o f :
        sch \in UrlSchemes, nl \in UrlNetlocs, p \in UrlPaths,
        q \in UrlQueries, f \in UrlFragments}

InitFilter ==
    /\ \E url \in Seeds : InitChecker(url, 0, 1)
    /\ fin \in UrlStrings
    /\ fin2 \in UrlStrings
    /\ fout = [done |-> FALSE]

ApplyFilter ==
    /\ ~fout.done
    /\ fout' = [done   |-> TRUE,
                valid  |-> is_valid_url(fin, base_url, visited),
                clean  |-> clean_url(urlparse(fin)),
                clean2 |-> clean_url(urlparse(fin2)),
                again  |-> clean_url(urlparse(clean_url(urlparse(fin)))),
                links  |-> extract_links({Href(fin)}, Head(to_visit),
                                         base_url, visited)]
    /\ UNCHANGED <<fin, fin2>>
    /\ UNCHANGED crawlVars

NextFilter == ApplyFilter

SpecFilter == InitFilter /\ [][NextFilter]_vars

----------------------------------------------------------------------------
(* Properties *)

Range(seq) == {seq[i] : i \in DOMAIN seq}

RecordsFor(list, url) == {i \in DOMAIN list : list[i].url = url}

RecordedUrls == {r.url : r \in Range(valid_links) \cup Range(broken_links)}

\* a URL up to its query string and fragment
Stem(url) == SubSeq(url, 1, FirstIn(url, 1, {"?", "#"}) - 1)

\* C1: crawl never performs more fetch attempts (calls of check_url) than
\* max_pages, also when the frontier holds max_pages or more URLs.
FetchBudget == fetches <= max_pages

FetchBudgetWitness ==
    /\ pc = "done"
    /\ max_pages >= 1
    /\ fetches = max_pages
    /\ Len(to_visit) >= max_pages

\* C2: visited never holds two different entries with the same canonical
\* form (scheme, authority and path; query and fragment dropped).
DedupInvariant ==
    \A u, v \in visited : Stem(u) = Stem(v) => u = v

\* C3: every URL on the frontier, in visited or in a record of valid or
\* broken has the authority of the seed URL.
SameOrigin ==
    \A u \in Range(to_visit) \cup visited \cup RecordedUrls :
        urlparse(u).netloc = urlparse(base_url).netloc

\* C4: a URL whose fetch failed at the network level has exactly one record
\* in broken, with error set and an issue that begins "Connection error:",
\* and no record in valid.
NetworkFailureRecorded ==
    \A k \in DOMAIN fetch_log :
        LET r == fetch_log[k]
        IN  r.error # None =>
              /\ Cardinality(RecordsFor(broken_links, r.url)) = 1
              /\ \A i \in RecordsFor(broken_links, r.url) :
                    /\ broken_links[i].error # None
                    /\ broken_links[i].issue # <<>>
                    /\ StartsWith(broken_links[i].issue, <<"Connection error: ">>)
              /\ RecordsFor(valid_links, r.url) = {}

\* C5: whatever a fetch ends in, crawl raises nothing to its caller, and it
\* returns only when the frontier is empty or the budget is used up.
NoAbort ==
    /\ pc # "raised"
    /\ pc = "done" => (to_visit = <<>> \/ pages_checked >= max_pages)

\* C6: every processed URL has exactly one record: in broken with issue
\* "HTTP <code> error" when the status is >= 400, in broken with a
\* connection-error issue when the fetch returned an error, in valid without
\* an issue otherwise.
ClassificationPartition ==
    \A k \in DOMAIN fetch_log :
        LET r == fetch_log[k]
            b == RecordsFor(broken_links, r.url)
            v == RecordsFor(valid_links, r.url)
        IN  /\ Cardinality(b) + Cardinality(v) = 1
            /\ IF r.error # None
               THEN \E i \in b :
                       StartsWith(broken_links[i].issue, <<"Connection error: ">>)
               ELSE IF r.status_code[1] >= 400
               THEN \E i \in b :
                       broken_links[i].issue =
                           <<"HTTP ", ToString(r.status_code[1]), " error">>
               ELSE \E i \in v : "issue" \notin DOMAIN valid_links[i]

\* C7: the example.test scenario ends with exactly one broken record,
\* /missing with issue "HTTP 404 error", and exactly three valid records, the
\* seed, /a and /b: a success rate of 75 percent.
ScenarioResult ==
    pc = "done" =>
        /\ Len(broken_links) = 1
        /\ broken_links[1].url = ScnMissing
        /\ broken_links[1].issue = <<"HTTP ", "404", " error">>
        /\ Len(valid_links) = 3
        /\ {valid_links[i].url : i \in DOMAIN valid_links} = {ScnSeed, ScnA, ScnB}
        /\ success_rate.num = 75 * success_rate.den

ScenarioWitness ==
    /\ pc = "done"
    /\ max_pages = 10
    /\ delay = 0
    /\ visited = {ScnSeed, ScnA, ScnB, ScnMissing}
    /\ Len(fetch_log) = 4

\* C8: is_valid_url rejects every URL whose path ends with a denylisted
\* extension, in any letter case and whatever query or fragment follows, and
\* such a URL found in an href yields no link.
ExtensionFilter ==
    (fout.done /\ \E ext \in skip_extensions : EndsWith(LowerStr(Stem(fin)), ext))
        => (~fout.valid /\ fout.links = {})

\* C9: two URLs that differ only in query and fragment have the same
\* canonical form, and the canonical form of a canonical form is itself.
CanonicalInsensitiveIdempotent ==
    fout.done =>
        /\ Stem(fin) = Stem(fin2) => fout.clean = fout.clean2
        /\ fout.again = fout.clean

CanonicalWitness ==
    /\ fout.done
    /\ fin # fin2
    /\ Stem(fin) = Stem(fin2)
    /\ Contains(fin, "?")
    /\ Contains(fin2, "#")
    /\ fout.clean = fout.clean2

\* C10: at most one request is in flight, and every request but the first is
\* issued after a sleep of delay that follows the request before it.
Pacing == in_flight <= 1 /\ paced

\* C11: when an interrupt stops crawl, every URL in visited has exactly one
\* record in valid or broken, so the pages-checked count of the summary
\* equals its total of valid and broken records.
InterruptConsistent ==
    pc = "interrupted" =>
        /\ \A u \in visited :
              Cardinality(RecordsFor(valid_links, u))
                + Cardinality(RecordsFor(broken_links, u)) = 1
        /\ total_pages_checked = total_links

\* C12: a step from a loop head whose front URL is already visited only
\* removes that URL: no fetch, no count, no record, no sleep; and at every
\* loop head the number of sleeps equals the number of processed URLs.
SkipStepFrame ==
    /\ [](pc \in {"loop", "done"} => sleeps = pages_checked)
    /\ [][(pc = "loop" /\ to_visit # <<>> /\ pages_checked < max_pages
              /\ Head(to_visit) \in visited)
            => /\ to_visit' = Tail(to_visit)
               /\ UNCHANGED <<visited, valid_links, broken_links,
                              pages_checked, fetches, gets, in_flight,
                              sleeps, pc>>]_vars

SkipStepWitness ==
    /\ last = "skip"
    /\ sleeps = pages_checked
    /\ broken_links # <<>>
    /\ valid_links # <<>>

IsCheckGet(g) == g.kind = "check"

\* the URLs in the order in which check_url was called for them
FetchOrder == SelectSeq(get_log, IsCheckGet)

\* C13: URLs are fetched in the order of their first append to the frontier,
\* and link distance from the seed never decreases along that order.
BreadthFirst ==
    /\ Len(FetchOrder) <= Len(enq_log)
    /\ \A i \in DOMAIN FetchOrder : FetchOrder[i].url = enq_log[i].url
    /\ \A i, j \in DOMAIN enq_log :
          i <= j => enq_log[i].depth <= enq_log[j].depth

BreadthFirstWitness ==
    /\ Len(FetchOrder) = 4
    /\ enq_log[2].depth = 1
    /\ enq_log[3].depth = 1
    /\ enq_log[4].depth = 2
    /\ Len(enq_log) > 4

\* C14: crawl eventually returns, with the frontier empty or pages_checked
\* equal to max_pages; with max_pages <= 0 no request is ever issued.
Terminates ==
    /\ <>(pc = "done" /\ (to_visit = <<>> \/ pages_checked = max_pages))
    /\ [](max_pages <= 0 => gets = 0)

Min(a, b) == IF a <= b THEN a ELSE b

\* C15: when crawl returns with pages_checked < max_pages, every URL that
\* was ever appended to the frontier is in visited and has a record; the
\* number of pages checked is min(max_pages, number of URLs ever enqueued).
ExhaustiveUnderBudget ==
    pc = "done" =>
        /\ pages_checked < max_pages =>
              \A i \in DOMAIN enq_log :
                 /\ enq_log[i].url \in visited
                 /\ enq_log[i].url \in RecordedUrls
        /\ pages_checked = Min(max_pages, Len(enq_log))

ExhaustiveWitness ==
    /\ pc = "done"
    /\ pages_checked < max_pages
    /\ Len(enq_log) >= 3
    /\ last = "finish"
    /\ \E i \in DOMAIN fetch_log : fetch_log[i].error # None

IsPrefix(a, b) == Len(a) <= Len(b) /\ SubSeq(b, 1, Len(a)) = a

\* the result of the page that is being processed
CurrentResult == fetch_log[Len(fetch_log)]

\* C16: the frontier grows only in the extraction step of a page that is
\* recorded valid, has status 200 and a content type that contains text/html.
ExtractionGate ==
    [][Len(to_visit') > Len(to_visit) =>
         /\ last' = "extracted"
         /\ CurrentResult.url = current_url
         /\ CurrentResult.status_code = <<200>>
         /\ CurrentResult.content_type # <<>>
         /\ Contains(CurrentResult.content_type[1], "text/html")
         /\ RecordsFor(valid_links, current_url) # {}
         /\ RecordsFor(broken_links, current_url) = {}]_vars

ExtractionGateWitness ==
    /\ last = "extracted"
    /\ to_visit # <<>>
    /\ Len(fetch_log) >= 3
    /\ CurrentResult.url = current_url
    /\ to_visit[Len(to_visit)] \notin visited
    /\ \E i \in DOMAIN valid_links : valid_links[i].status_code = <<301>>

\* C17: when the re-fetch or the extraction fails, valid, broken, visited and
\* the frontier stay as they are, the page keeps its one record in valid and
\* crawl goes on to the sleep; records are only ever appended.
ExtractionFailureLocal ==
    [][/\ IsPrefix(valid_links, valid_links')
       /\ IsPrefix(broken_links, broken_links')
       /\ last' = "extract_failed" =>
             /\ UNCHANGED <<valid_links, broken_links, visited, to_visit>>
             /\ Cardinality(RecordsFor(valid_links', current_url)) = 1
             /\ RecordsFor(broken_links', current_url) = {}
             /\ pc' = "sleep"]_vars

ExtractionFailureWitness ==
    /\ last = "extract_failed"
    /\ pc = "sleep"
    /\ to_visit # <<>>
    /\ Cardinality(RecordsFor(valid_links, current_url)) = 1
    /\ broken_links # <<>>

\* C18: at every loop boundary no URL of the frontier is in visited.
FrontierUnvisited ==
    pc = "loop" => \A i \in DOMAIN to_visit : to_visit[i] \notin visited

\* C18, amended: a URL is not in visited at the moment it is appended to the
\* frontier; a copy that is in visited when it reaches the front is dropped
\* with no request and no change to visited or the records.
AppendedUnvisited ==
    [][/\ Len(to_visit') > Len(to_visit) =>
             /\ IsPrefix(to_visit, to_visit')
             /\ \A i \in (Len(to_visit) + 1)..Len(to_visit') :
                   to_visit'[i] \notin visited'
       /\ (pc = "loop" /\ LoopCondition /\ Head(to_visit) \in visited) =>
             /\ to_visit' = Tail(to_visit)
             /\ pc' = "loop"
             /\ UNCHANGED <<visited, valid_links, broken_links, gets>>]_vars

VisitedInFrontierWitness ==
    /\ pc = "loop"
    /\ last = "sleep"
    /\ to_visit # <<>>
    /\ Head(to_visit) \in visited
    /\ pages_checked < max_pages

\* C19: at every loop boundary and at normal termination the size of visited,
\* pages_checked and the number of records agree and do not exceed max_pages,
\* the records' URLs are exactly visited, and no URL has two records.
AccountingInvariant ==
    pc \in {"loop", "done"} =>
        /\ Cardinality(visited) = pages_checked
        /\ pages_checked = Len(valid_links) + Len(broken_links)
        /\ pages_checked <= max_pages
        /\ RecordedUrls = visited
        /\ \A u \in RecordedUrls :
              Cardinality(RecordsFor(valid_links, u))
                 + Cardinality(RecordsFor(broken_links, u)) = 1

AccountingWitness ==
    /\ pc = "done"
    /\ pages_checked = max_pages
    /\ pages_checked >= 3
    /\ valid_links # <<>>
    /\ broken_links # <<>>
    /\ to_visit # <<>>

IsHtml200(r) ==
    /\ r.status_code = <<200>>
    /\ r.content_type # None
    /\ Contains(r.content_type[1], "text/html")

\* the positions of the GETs of one kind for one URL
GetsOf(url, kind) ==
    {i \in DOMAIN get_log : get_log[i].url = url /\ get_log[i].kind = kind}

\* C20: every processed URL gets exactly one classification GET, and one more
\* GET right after it exactly when it was recorded valid with status 200 and
\* an HTML content type; there are no other requests, so a URL gets at most
\* two GETs and a run at most 2 * max_pages.
RequestCount ==
    /\ Len(get_log) = gets
    /\ gets <= 2 * max_pages
    /\ {get_log[i].url : i \in DOMAIN get_log} = visited
    /\ \A u \in visited :
          /\ Cardinality(GetsOf(u, "check")) = 1
          /\ Cardinality(GetsOf(u, "body")) <= 1
          /\ \A i \in GetsOf(u, "body") :
                i > 1 /\ get_log[i - 1] = [url |-> u, kind |-> "check"]
          /\ u \in RecordedUrls =>
                (GetsOf(u, "body") # {} <=>
                    \E k \in RecordsFor(valid_links, u) :
                       IsHtml200(valid_links[k]))

RequestCountWitness ==
    /\ pc = "done"
    /\ gets < 2 * pages_checked
    /\ gets > pages_checked + 1
    /\ \E k \in DOMAIN valid_links : ~IsHtml200(valid_links[k])
    /\ broken_links # <<>>

====
